---- MODULE Spec2Model ----
(***************************************************************************)
(* Model of payment/rabbitmq.py: the Publisher object (environment-driven  *)
(* construction, lazy connection, publish, close) together with the part   *)
(* of the broker client library its code observes: connections that are    *)
(* open or closed, channels that belong to a connection, and exchange      *)
(* declarations made on a channel.                                         *)
(*                                                                         *)
(* Python values are encoded as follows.                                   *)
(*   Optional x      : None is <<>>, a present value x is <<x>>.           *)
(*   str             : a TLA+ string for configuration names, a sequence   *)
(*                     of Unicode code points inside message payloads.     *)
(*   JSON payloads   : records [t |-> tag, v |-> value].                   *)
(*   dict (headers)  : a sequence of <<key, value>> pairs.                 *)
(*   object reference: a positive identifier, NoRef for None.              *)
(***************************************************************************)
EXTENDS Integers, Sequences, FiniteSets, TLC

\* Number of calls and connection drops after construction in one run.
MaxCalls == 3

VARIABLES
  environ,    \* the process environment: a function from variable name to string
  pc,         \* "new" before Publisher(logger), then "ready" or "failed"
  raised,     \* the exception raised by the constructor, None when it returned
  cfg,        \* the attributes set by the constructor, <<>> before it returns
  conn,       \* self._conn
  channel,    \* self._channel
  connState,  \* library: connState[c] is "open" or "closed" for each connection made
  chans,      \* library: chans[ch] = [conn, open, declared] for each channel made
  trace       \* every call made after construction, with the broker operations it issued

vars == <<environ, pc, raised, cfg, conn, channel, connState, chans, trace>>

None == <<>>
Some(x) == <<x>>

\* self._conn = None, self._channel = None
NoRef == 0

-----------------------------------------------------------------------------
(* json.dumps(msg).encode()                                                *)

\* The decimal digits of a natural number, as code points.
RECURSIVE Digits(_)
Digits(n) == IF n < 10 THEN <<48 + n>> ELSE Digits(n \div 10) \o <<48 + (n % 10)>>

\* One lower-case hexadecimal digit, as a code point.
HexDigit(d) == IF d < 10 THEN 48 + d ELSE 87 + d

\* The escape \uXXXX of a 16-bit unit.
UEscape(u) ==
  <<92, 117, HexDigit(u \div 4096), HexDigit((u \div 256) % 16),
    HexDigit((u \div 16) % 16), HexDigit(u % 16)>>

\* json's ensure_ascii string escaping of one code point.
EscapeChar(c) ==
  CASE c = 34 -> <<92, 34>>
    [] c = 92 -> <<92, 92>>
    [] c = 10 -> <<92, 110>>
    [] c = 13 -> <<92, 114>>
    [] c = 9  -> <<92, 116>>
    [] c = 12 -> <<92, 102>>
    [] c = 8  -> <<92, 98>>
    [] OTHER  ->
         IF c >= 32 /\ c <= 126 THEN <<c>>
         ELSE IF c < 65536 THEN UEscape(c)
         ELSE UEscape(55296 + (((c - 65536) \div 1024) % 1024))
                \o UEscape(56320 + ((c - 65536) % 1024))

RECURSIVE EscapeString(_)
EscapeString(s) ==
  IF s = <<>> THEN <<>> ELSE EscapeChar(Head(s)) \o EscapeString(Tail(s))

QuoteString(s) == <<34>> \o EscapeString(s) \o <<34>>

\* json.dumps with its defaults: ensure_ascii, separators ", " and ": ".
RECURSIVE JsonDumps(_), JsonItems(_), JsonPairs(_)
JsonDumps(o) ==
  CASE o.t = "null" -> <<110, 117, 108, 108>>
    [] o.t = "bool" -> IF o.v THEN <<116, 114, 117, 101>> ELSE <<102, 97, 108, 115, 101>>
    [] o.t = "int"  -> IF o.v < 0 THEN <<45>> \o Digits(0 - o.v) ELSE Digits(o.v)
    [] o.t = "str"  -> QuoteString(o.v)
    [] o.t = "list" -> <<91>> \o JsonItems(o.v) \o <<93>>
    [] o.t = "dict" -> <<123>> \o JsonPairs(o.v) \o <<125>>
JsonItems(xs) ==
  IF xs = <<>> THEN <<>>
  ELSE JsonDumps(Head(xs))
         \o (IF Tail(xs) = <<>> THEN <<>> ELSE <<44, 32>> \o JsonItems(Tail(xs)))
JsonPairs(kvs) ==
  IF kvs = <<>> THEN <<>>
  ELSE QuoteString(Head(kvs)[1]) \o <<58, 32>> \o JsonDumps(Head(kvs)[2])
         \o (IF Tail(kvs) = <<>> THEN <<>> ELSE <<44, 32>> \o JsonPairs(Tail(kvs)))

\* str.encode(): the UTF-8 bytes of one code point.
Utf8Char(c) ==
  IF c < 128 THEN <<c>>
  ELSE IF c < 2048 THEN <<192 + (c \div 64), 128 + (c % 64)>>
  ELSE IF c < 65536 THEN <<224 + (c \div 4096), 128 + ((c \div 64) % 64), 128 + (c % 64)>>
  ELSE <<240 + (c \div 262144), 128 + ((c \div 4096) % 64),
         128 + ((c \div 64) % 64), 128 + (c % 64)>>

RECURSIVE encode(_)
encode(s) == IF s = <<>> THEN <<>> ELSE Utf8Char(Head(s)) \o encode(Tail(s))

\* body=json.dumps(msg).encode()
Body(msg) == encode(JsonDumps(msg))

\* dict literal {}
EmptyDict == <<>>

\* headers or {}
HeadersOrEmpty(headers) ==
  IF headers = None \/ headers[1] = EmptyDict THEN EmptyDict ELSE headers[1]

\* Faulty variant of Properties: headers passed on without `or {}`.
PropertiesRaw(headers) == [headers |-> headers]

\* properties=pika.BasicProperties(headers=headers or {})
Properties(headers) == [headers |-> Some(HeadersOrEmpty(headers))]

-----------------------------------------------------------------------------
(* Inputs                                                                  *)

\* {"orderid": 7, "paid": [True, None, -12]}
MsgOrder ==
  [t |-> "dict",
   v |-> << <<<<111, 114, 100, 101, 114, 105, 100>>, [t |-> "int", v |-> 7]>>,
            <<<<112, 97, 105, 100>>,
              [t |-> "list",
               v |-> <<[t |-> "bool", v |-> TRUE], [t |-> "null"], [t |-> "int", v |-> -12]>>]>> >>]
\* the string of the three characters  e-acute, double quote, backslash
MsgText == [t |-> "str", v |-> <<233, 34, 92>>]

Messages == {MsgOrder, MsgText}

\* headers omitted, an empty mapping, a non-empty mapping
HeaderArgs == {None, Some(EmptyDict), Some(<< <<"user", "u1">> >>)}

RequiredVars == {"AMQP_HOST", "AMQP_USER", "AMQP_PASS"}

\* Every required variable absent, set to the empty string, or set to a value.
RequiredEnvs == UNION {[S -> {"", "guest"}] : S \in SUBSET RequiredVars}

\* The optional variables all absent, or all set.
OptionalEnvs ==
  { <<>>,
    [AMQP_VHOST |-> "shop", AMQP_EXCHANGE |-> "payments",
     AMQP_EXCHANGE_TYPE |-> "topic", AMQP_ROUTING_KEY |-> "paid"] }

Environs == {req @@ opt : req \in RequiredEnvs, opt \in OptionalEnvs}

-----------------------------------------------------------------------------
(* Publisher.__init__, lines 9-26                                          *)

\* os.getenv(key, default): default is already an Optional
getenv(env, key, default) == IF key \in DOMAIN env THEN Some(env[key]) ELSE default

\* Faulty variant of Falsy: `v is None`.
IsNone(v) == v = None

\* `not v` for an Optional[str]
Falsy(v) == v = None \/ v[1] = ""

RECURSIVE Keys(_)
Keys(items) == IF items = <<>> THEN <<>> ELSE <<Head(items)[1]>> \o Keys(Tail(items))

\* [k for k, v in {...}.items() if not v]
Missing(HOST, USER, PASS) ==
  Keys(SelectSeq(<< <<"AMQP_HOST", HOST>>, <<"AMQP_USER", USER>>, <<"AMQP_PASS", PASS>> >>,
                 LAMBDA kv : Falsy(kv[2])))

\* raise RuntimeError(f"Missing RabbitMQ env vars: {', '.join(missing)}")
RuntimeError(missing) ==
  [type |-> "RuntimeError", prefix |-> "Missing RabbitMQ env vars: ", names |-> missing]

-----------------------------------------------------------------------------
(* The broker client library, as far as the Publisher's code observes it   *)

\* The Publisher's references and the library objects they may point to.
Here == [conn |-> conn, channel |-> channel, connState |-> connState, chans |-> chans]

\* connection.is_closed, connection.is_open
is_closed(s, c) == s.connState[c] = "closed"
is_open(s, c) == s.connState[c] = "open"

\* channel.is_open
channel_is_open(s, ch) == s.chans[ch].open

\* Connection c is closed (by close(), by the broker or by the network); its
\* channels close with it.
Closed(s, c) ==
  [s EXCEPT !.connState[c] = "closed",
            !.chans = [i \in 1..Len(s.chans) |->
                         IF s.chans[i].conn = c THEN [s.chans[i] EXCEPT !.open = FALSE]
                         ELSE s.chans[i]]]

\* Channel ch is closed by the broker; its connection stays open.
ChannelClosed(s, ch) == [s EXCEPT !.chans[ch].open = FALSE]

\* The broker operations a call issues, in order, as recorded in the trace.
OpOpen(c, ok) == [k |-> "open", c |-> c, ok |-> ok]
OpChannel(c, ch, ok) == [k |-> "channel", c |-> c, ch |-> ch, ok |-> ok]
OpDeclare(ch, exchange, type, durable, ok) ==
  [k |-> "exchange_declare", ch |-> ch, exchange |-> exchange, exchange_type |-> type,
   durable |-> durable, ok |-> ok]
OpLog(text) == [k |-> "log", text |-> text]
OpClose(c) == [k |-> "close", c |-> c]

\* The outcome of a call, or of a part of one: the state it leaves, the broker
\* operations it issued, and the exception it raised (None when it returned).
Run(s, ops, err) == [s |-> s, ops |-> ops, err |-> err]

-----------------------------------------------------------------------------
(* Publisher._connect                                                      *)

\* Faulty variants of the test below: one that never finds a connection to
\* reuse, one that forgets is_closed.
NotConnectedAlways(s) == TRUE
NotConnectedNoneOnly(s) == s.conn = NoRef

\* `not self._conn or self._conn.is_closed`
NotConnected(s) == s.conn = NoRef \/ is_closed(s, s.conn)

\* self._conn = pika.BlockingConnection(self._params), when it returns
AssignConn(s) ==
  [s EXCEPT !.connState = Append(s.connState, "open"), !.conn = Len(s.connState) + 1]

\* self._channel = self._conn.channel(), when it returns
AssignChannel(s) ==
  [s EXCEPT !.chans = Append(s.chans, [conn |-> s.conn, open |-> TRUE, declared |-> None]),
            !.channel = Len(s.chans) + 1]

\* self._channel.exchange_declare(exchange=..., exchange_type=..., durable=True), when it returns
ExchangeDeclared(s, c) ==
  [s EXCEPT !.chans[s.channel].declared =
              Some([exchange |-> c.EXCHANGE, exchange_type |-> c.TYPE, durable |-> TRUE])]

\* The body of the `if` of _connect: every way it can go. A library call
\* that raises ends the method there, with the assignments made so far kept;
\* what the library leaves behind when it raises (the connection or the
\* channel closed, or neither) is its choice.
reconnect(s, c) ==
  LET s1 == AssignConn(s)
      o1 == <<OpOpen(s1.conn, TRUE)>>
      s2 == AssignChannel(s1)
      o2 == o1 \o <<OpChannel(s1.conn, s2.channel, TRUE)>>
      s3 == ExchangeDeclared(s2, c)
  IN  {Run(s, <<OpOpen(NoRef, FALSE)>>, Some("BlockingConnection"))}
        \cup {Run(t, o1 \o <<OpChannel(s1.conn, NoRef, FALSE)>>, Some("channel")) :
                t \in {s1, Closed(s1, s1.conn)}}
        \cup {Run(t, o2 \o <<OpDeclare(s2.channel, c.EXCHANGE, c.TYPE, TRUE, FALSE)>>,
                  Some("exchange_declare")) :
                t \in {s2, ChannelClosed(s2, s2.channel), Closed(s2, s2.conn)}}
        \cup {Run(s3,
                  o2 \o <<OpDeclare(s2.channel, c.EXCHANGE, c.TYPE, TRUE, TRUE),
                          OpLog("connected to broker")>>,
                  None)}

\* Faulty variant of connect: the guard of line 40 is missing.
connectUnguarded(s, c) == reconnect(s, c)

\* Every way one call of _connect can go.
connect(s, c) ==
  IF ~NotConnected(s) THEN {Run(s, <<>>, None)} ELSE reconnect(s, c)

-----------------------------------------------------------------------------
(* Publisher.publish                                                       *)

\* self._channel.basic_publish(exchange=, routing_key=, body=, properties=)
\* reached after the operations of run r. With self._channel None the
\* attribute lookup raises before the arguments are evaluated; a closed
\* channel refuses the call; an open one sends the message or loses its
\* connection. The attempt is recorded with the arguments of publish (msg,
\* headers) it evaluated and with the state of the channel it was issued on.
basic_publish(r, c, msg, headers) ==
  LET s == r.s
      ch == s.channel
      attempt(chOpen, connOpen, ok) ==
        [k |-> "basic_publish", ch |-> ch, chanOpen |-> chOpen, connOpen |-> connOpen,
         msg |-> msg, headers |-> headers,
         exchange |-> c.EXCHANGE, routing_key |-> c.ROUTING_KEY,
         body |-> Body(msg), properties |-> Properties(headers), ok |-> ok]
  IN  IF ch = NoRef
      THEN {Run(s, r.ops \o <<[k |-> "basic_publish", ch |-> NoRef, chanOpen |-> FALSE,
                                connOpen |-> FALSE, ok |-> FALSE]>>,
                Some("AttributeError"))}
      ELSE IF ~channel_is_open(s, ch)
      THEN {Run(s, r.ops \o <<attempt(FALSE, is_open(s, s.chans[ch].conn), FALSE)>>,
                Some("ChannelWrongStateError"))}
      ELSE {Run(s, r.ops \o <<attempt(TRUE, TRUE, TRUE), OpLog("message sent to queue")>>, None),
            Run(Closed(s, s.chans[ch].conn), r.ops \o <<attempt(TRUE, TRUE, FALSE)>>,
                Some("basic_publish"))}

\* Faulty variant of publish: a failed _connect is tried once more.
publishRetry(s, c, msg, headers) ==
  LET first == IF NotConnected(s) THEN connect(s, c) ELSE {Run(s, <<>>, None)}
      again(r) ==
        IF r.err = None THEN {r}
        ELSE {Run(q.s, r.ops \o q.ops, q.err) : q \in connect(r.s, c)}
      connected == UNION {again(r) : r \in first}
  IN  UNION {IF r.err # None THEN {r} ELSE basic_publish(r, c, msg, headers) : r \in connected}

\* Every way one call of publish(msg, headers) can go.
publish(s, c, msg, headers) ==
  LET connected == IF NotConnected(s) THEN connect(s, c) ELSE {Run(s, <<>>, None)}
  IN  UNION {IF r.err # None THEN {r} ELSE basic_publish(r, c, msg, headers) : r \in connected}

-----------------------------------------------------------------------------
(* Publisher.close                                                         *)

\* Faulty variant of close: the guard of line 66 is missing, so closing
\* without an open connection raises.
closeUnguarded(s) ==
  IF s.conn = NoRef THEN Run(s, <<>>, Some("AttributeError"))
  ELSE IF is_open(s, s.conn) THEN Run(Closed(s, s.conn), <<OpClose(s.conn)>>, None)
  ELSE Run(s, <<OpClose(s.conn)>>, Some("ConnectionWrongStateError"))

close(s) ==
  IF s.conn # NoRef /\ is_open(s, s.conn)
  THEN Run(Closed(s, s.conn), <<OpClose(s.conn)>>, None)
  ELSE Run(s, <<>>, None)

-----------------------------------------------------------------------------
(* Publisher.__init__, lines 28-37, and the constructor as a whole         *)

\* Faulty variant of Unconnected: the constructor connects eagerly.
ConnectedAtInit(s) == AssignChannel(AssignConn(s))

\* self._conn = None; self._channel = None
Unconnected(s) == [s EXCEPT !.conn = NoRef, !.channel = NoRef]

Construct ==
  /\ pc = "new"
  /\ LET HOST == getenv(environ, "AMQP_HOST", None)
         USER == getenv(environ, "AMQP_USER", None)
         PASS == getenv(environ, "AMQP_PASS", None)
         missing == Missing(HOST, USER, PASS)
         s == Unconnected(Here)
     IN IF missing # <<>>
        THEN /\ pc' = "failed"
             /\ raised' = Some(RuntimeError(missing))
             /\ UNCHANGED <<cfg, conn, channel, connState, chans>>
        ELSE /\ pc' = "ready"
             /\ raised' = None
             /\ cfg' = [HOST |-> HOST[1], USER |-> USER[1], PASS |-> PASS[1],
                        VIRTUAL_HOST |-> getenv(environ, "AMQP_VHOST", Some("/"))[1],
                        EXCHANGE |-> getenv(environ, "AMQP_EXCHANGE", Some("robot-shop"))[1],
                        TYPE |-> getenv(environ, "AMQP_EXCHANGE_TYPE", Some("direct"))[1],
                        ROUTING_KEY |-> getenv(environ, "AMQP_ROUTING_KEY", Some("orders"))[1]]
             /\ conn' = s.conn
             /\ channel' = s.channel
             /\ connState' = s.connState
             /\ chans' = s.chans
  /\ UNCHANGED <<environ, trace>>

-----------------------------------------------------------------------------
(* Calls                                                                   *)

\* What a call found: the Publisher's references and whether its connection was open.
Pre == [conn |-> conn, channel |-> channel,
        open |-> conn # NoRef /\ is_open(Here, conn)]

\* The state a run leaves, and the call's entry in the trace.
Finish(call, r) ==
  /\ conn' = r.s.conn
  /\ channel' = r.s.channel
  /\ connState' = r.s.connState
  /\ chans' = r.s.chans
  /\ trace' = Append(trace, call @@ [pre |-> Pre, ops |-> r.ops, err |-> r.err])
  /\ UNCHANGED <<environ, pc, raised, cfg>>

CanCall == pc = "ready" /\ Len(trace) < MaxCalls

CallPublish ==
  /\ CanCall
  /\ \E msg \in Messages, headers \in HeaderArgs :
       \E r \in publish(Here, cfg, msg, headers) :
         Finish([op |-> "publish"], r)

CallClose ==
  /\ CanCall
  /\ Finish([op |-> "close"], close(Here))

\* Direct use of the internal method.
CallConnect ==
  /\ CanCall
  /\ \E r \in connect(Here, cfg) : Finish([op |-> "connect"], r)

\* The broker or the network closes an open connection between two calls; the
\* library reports it as is_closed.
ConnectionDrop ==
  /\ CanCall
  /\ \E c \in 1..Len(connState) :
       /\ is_open(Here, c)
       /\ Finish([op |-> "drop", c |-> c], Run(Closed(Here, c), <<>>, None))

Init ==
  /\ environ \in Environs
  /\ pc = "new"
  /\ raised = None
  /\ cfg = <<>>
  /\ conn = NoRef
  /\ channel = NoRef
  /\ connState = <<>>
  /\ chans = <<>>
  /\ trace = <<>>

Next ==
  \/ Construct
  \/ CallPublish
  \/ CallClose
  \/ ConnectionDrop

Spec == Init /\ [][Next]_vars

\* The same, with callers that also use _connect directly.
NextConnect ==
  \/ Construct
  \/ CallPublish
  \/ CallClose
  \/ CallConnect
  \/ ConnectionDrop

SpecConnect == Init /\ [][NextConnect]_vars

-----------------------------------------------------------------------------
(* Reading the trace                                                       *)

Last == trace[Len(trace)]

\* The operations of kind k that call r issued, in order.
Kind(r, k) == SelectSeq(r.ops, LAMBDA o : o.k = k)

\* The library calls of r that raised.
FailedOps(r) == SelectSeq(r.ops, LAMBDA o : o.k \notin {"log", "close"} /\ ~o.ok)

\* The kinds of a sequence of operations.
Kinds(ops) == [n \in 1..Len(ops) |-> ops[n].k]

\* r is a publish() that returned.
IsOkPublish(r) == r.op = "publish" /\ r.err = None

\* The operations of the whole run, in order.
RECURSIVE ConcatOps(_)
ConcatOps(calls) ==
  IF calls = <<>> THEN <<>> ELSE Head(calls).ops \o ConcatOps(Tail(calls))

AllOps == ConcatOps(trace)

\* No publish() among the first n calls.
NoPublishYet(n) == \A j \in 1..n : trace[j].op # "publish"

\* The step is a call of method op.
Called(op) == Len(trace') = Len(trace) + 1 /\ trace'[Len(trace')].op = op

\* The step leaves the Publisher's references and the library's objects alone.
Kept == UNCHANGED <<conn, channel, connState, chans>>

\* The value of an optional environment variable.
Configured(key, default) == IF key \in DOMAIN environ THEN environ[key] ELSE default

\* The required variables that are absent, and those absent or empty.
Absent == {k \in RequiredVars : k \notin DOMAIN environ}
AbsentOrEmpty == {k \in RequiredVars : k \notin DOMAIN environ \/ environ[k] = ""}

\* The names the constructor's error lists.
NamesRaised == {raised[1].names[n] : n \in 1..Len(raised[1].names)}

-----------------------------------------------------------------------------
(* C1 *)

\* C1: every basic_publish that publish() reaches is issued on a non-null,
\* open channel of a currently open connection, whatever construct, publish,
\* close, connection drops and failed connect steps came before.
C1_PublishOnLiveChannel ==
  \A i \in DOMAIN trace : \A n \in DOMAIN trace[i].ops :
    LET o == trace[i].ops[n]
    IN  o.k = "basic_publish" => (o.ch # NoRef /\ o.chanOpen /\ o.connOpen)

-----------------------------------------------------------------------------
(* C2 *)

\* C2, as claimed: construction fails if and only if a required variable is
\* absent, and the error names exactly the absent variables.
C2_FailsIffAbsent ==
  pc # "new" =>
    /\ pc = "failed" <=> Absent # {}
    /\ pc = "failed" => NamesRaised = Absent

\* C2, amended: construction fails if and only if a required variable is
\* absent or set to the empty string, and the error names exactly those
\* variables, each once.
C2_FailsIffAbsentOrEmpty ==
  pc # "new" =>
    /\ pc = "failed" <=> AbsentOrEmpty # {}
    /\ pc = "failed" <=> raised # None
    /\ pc = "failed" =>
         /\ raised[1].type = "RuntimeError"
         /\ NamesRaised = AbsentOrEmpty
         /\ Len(raised[1].names) = Cardinality(AbsentOrEmpty)

\* One variable absent, one empty, one set: the constructor has raised.
C2_Witness ==
  /\ pc = "failed"
  /\ "AMQP_HOST" \notin DOMAIN environ
  /\ "AMQP_USER" \in DOMAIN environ /\ environ["AMQP_USER"] = ""
  /\ "AMQP_PASS" \in DOMAIN environ /\ environ["AMQP_PASS"] = "guest"

-----------------------------------------------------------------------------
(* C3 *)

\* No broker operation before the first publish(): calls made before it
\* issue none, and until it the Publisher holds no connection and no channel
\* and the library has made none.
NoIOBeforePublish ==
  /\ \A i \in DOMAIN trace : NoPublishYet(i) => trace[i].ops = <<>>
  /\ (pc = "ready" /\ NoPublishYet(Len(trace))) =>
       (conn = NoRef /\ channel = NoRef /\ connState = <<>> /\ chans = <<>>)

\* C3, as claimed: with all required variables set (to any string)
\* construction succeeds, leaves the Publisher unconnected, and no broker
\* operation occurs before the first publish().
C3_SetSucceedsNoIO ==
  /\ (pc # "new" /\ RequiredVars \subseteq DOMAIN environ) => (pc = "ready" /\ raised = None)
  /\ NoIOBeforePublish

\* C3, amended: with all required variables set to non-empty strings
\* construction succeeds, leaves the Publisher unconnected, and no broker
\* operation occurs before the first publish(), close() before it included.
C3_NonEmptySucceedsNoIO ==
  /\ (pc # "new" /\ AbsentOrEmpty = {}) => (pc = "ready" /\ raised = None)
  /\ NoIOBeforePublish

\* close() was called on the fresh Publisher, then publish() reached the broker.
C3_Witness ==
  /\ pc = "ready"
  /\ Len(trace) >= 2
  /\ trace[1].op = "close"
  /\ trace[2].op = "publish"
  /\ trace[2].ops # <<>>

-----------------------------------------------------------------------------
(* C4 *)

\* C4: in a run of successful publish() calls with no close() and no drop
\* between them, one connect sequence (open, channel, exchange_declare)
\* occurs, before the first message, and every message goes out on that
\* connection and channel; and whenever a successful publish() directly follows
\* another, the second connects nothing and sends on the channel of the first.
C4_OneConnectSequence ==
  /\ \A i \in DOMAIN trace :
       (\A j \in 1..i : IsOkPublish(trace[j])) =>
         LET first == trace[1].ops
             sends == Kind(trace[i], "basic_publish")
         IN  /\ Len(first) >= 3
             /\ Kinds(SubSeq(first, 1, 3)) = <<"open", "channel", "exchange_declare">>
             /\ \A n \in 1..3 : first[n].ok
             /\ first[2].c = first[1].c
             /\ first[3].ch = first[2].ch
             /\ i > 1 => \A n \in DOMAIN trace[i].ops :
                           trace[i].ops[n].k \notin {"open", "channel", "exchange_declare"}
             /\ Len(sends) = 1
             /\ sends[1].ok
             /\ sends[1].ch = first[2].ch
             /\ chans[sends[1].ch].conn = first[1].c
             /\ trace[i].pre.conn = IF i = 1 THEN NoRef ELSE first[1].c
  /\ \A i \in DOMAIN trace :
       (i > 1 /\ IsOkPublish(trace[i - 1]) /\ IsOkPublish(trace[i])) =>
         /\ Kinds(trace[i].ops) = <<"basic_publish", "log">>
         /\ trace[i].ops[1].ch = Kind(trace[i - 1], "basic_publish")[1].ch
         /\ trace[i].pre.conn = chans[trace[i].ops[1].ch].conn

\* Three successful publish() calls in a row on a fresh Publisher.
C4_Witness ==
  /\ Len(trace) = 3
  /\ \A i \in 1..3 : IsOkPublish(trace[i])

-----------------------------------------------------------------------------
(* C5 *)

\* C5: a publish() made while self._conn is a closed connection (closed by
\* close() or by a drop) makes one attempt to open a connection; when it
\* returns it has issued exactly open, channel, exchange_declare on a new
\* connection and a new channel and then sent the message on that channel;
\* and no attempt of it to send goes to another channel than the one it opened.
C5_ReconnectOnceThenSend ==
  \A i \in DOMAIN trace :
    LET r == trace[i]
    IN  (r.op = "publish" /\ r.pre.conn # NoRef /\ ~r.pre.open) =>
          /\ Len(Kind(r, "open")) = 1
          /\ \A n \in DOMAIN r.ops :
               r.ops[n].k = "basic_publish" =>
                 /\ r.ops[n].ch # NoRef
                 /\ r.ops[n].ch # r.pre.channel
                 /\ \E m \in 1..(n - 1) :
                      r.ops[m].k = "channel" /\ r.ops[m].ok /\ r.ops[m].ch = r.ops[n].ch
          /\ r.err = None =>
               /\ Kinds(r.ops) = <<"open", "channel", "exchange_declare", "log",
                                   "basic_publish", "log">>
               /\ \A n \in {1, 2, 3, 5} : r.ops[n].ok
               /\ r.ops[1].c # r.pre.conn
               /\ r.ops[2].c = r.ops[1].c
               /\ r.ops[3].ch = r.ops[2].ch
               /\ r.ops[5].ch = r.ops[2].ch

\* publish(), close(), publish(): the second publish() found the connection
\* closed and returned.
C5_Witness ==
  /\ Len(trace) = 3
  /\ IsOkPublish(trace[1])
  /\ trace[2].op = "close"
  /\ IsOkPublish(trace[3])
  /\ trace[3].pre.conn # NoRef /\ ~trace[3].pre.open

-----------------------------------------------------------------------------
(* C6 *)

\* C6: close() never raises; without an open connection (never opened, or
\* already closed) it issues no broker operation and changes nothing; with an
\* open connection it closes that connection; so a close() directly after a
\* close() changes nothing.
C6_CloseIdempotent ==
  [][Called("close") =>
       LET r == trace'[Len(trace')]
       IN  /\ r.err = None
           /\ (conn = NoRef \/ is_closed(Here, conn)) => (r.ops = <<>> /\ Kept)
           /\ (conn # NoRef /\ is_open(Here, conn)) =>
                /\ r.ops = <<OpClose(conn)>>
                /\ conn' = conn /\ channel' = channel
                /\ connState'[conn] = "closed"
           /\ (trace # <<>> /\ Last.op = "close") => (r.ops = <<>> /\ Kept)]_vars

\* publish(), close(), close(): the first close() found the connection open,
\* the second found it closed.
C6_Witness ==
  /\ Len(trace) = 3
  /\ trace[2].op = "close" /\ trace[2].pre.open /\ trace[2].ops # <<>>
  /\ trace[3].op = "close" /\ ~trace[3].pre.open /\ trace[3].ops = <<>>

-----------------------------------------------------------------------------
(* C7 *)

\* The exceptions a failed library call can raise.
Raises(o) ==
  CASE o.k = "open" -> {"BlockingConnection"}
    [] o.k = "channel" -> {"channel"}
    [] o.k = "exchange_declare" -> {"exchange_declare"}
    [] o.k = "basic_publish" -> {"AttributeError", "ChannelWrongStateError", "basic_publish"}

\* C7: one publish() makes at most one attempt to open a connection and at
\* most one basic_publish attempt; when a library call of it fails, the call
\* ends there with that error raised to the caller, no message sent and
\* 'message sent to queue' not logged.
C7_NoRetry ==
  \A i \in DOMAIN trace :
    LET r == trace[i]
        failed == FailedOps(r)
    IN  r.op = "publish" =>
          /\ Len(Kind(r, "open")) <= 1
          /\ Len(Kind(r, "basic_publish")) <= 1
          /\ failed # <<>> =>
               /\ Len(failed) = 1
               /\ r.ops[Len(r.ops)] = failed[1]
               /\ r.err # None
               /\ r.err[1] \in Raises(failed[1])
               /\ \A n \in DOMAIN r.ops :
                    /\ ~(r.ops[n].k = "basic_publish" /\ r.ops[n].ok)
                    /\ r.ops[n] # OpLog("message sent to queue")
          /\ r.err # None => failed # <<>>

\* A publish() that connected and whose basic_publish then failed.
C7_Witness ==
  /\ trace # <<>>
  /\ trace[1].op = "publish"
  /\ trace[1].err = Some("basic_publish")
  /\ Len(trace[1].ops) = 5

-----------------------------------------------------------------------------
(* C8 *)

\* The UTF-8 bytes of the JSON text of each message of Messages:
\*   {"orderid": 7, "paid": [true, null, -12]}
\*   "\u00e9\"\\"
ReferenceWire(m) ==
  CASE m = MsgOrder ->
         <<123, 34, 111, 114, 100, 101, 114, 105, 100, 34, 58, 32, 55, 44, 32, 34, 112,
           97, 105, 100, 34, 58, 32, 91, 116, 114, 117, 101, 44, 32, 110, 117, 108, 108,
           44, 32, 45, 49, 50, 93, 125>>
    [] m = MsgText -> <<34, 92, 117, 48, 48, 101, 57, 92, 34, 92, 92, 34>>

\* C8: the body passed to basic_publish is the UTF-8 encoding of the JSON
\* serialization of the message, the exchange and the routing key are the
\* configured ones, and the headers are the supplied mapping, or the empty
\* mapping when headers is omitted.
C8_WireContent ==
  \A i \in DOMAIN trace : \A n \in DOMAIN trace[i].ops :
    LET o == trace[i].ops[n]
    IN  (o.k = "basic_publish" /\ o.ch # NoRef) =>
          /\ o.body = ReferenceWire(o.msg)
          /\ o.exchange = Configured("AMQP_EXCHANGE", "robot-shop")
          /\ o.routing_key = Configured("AMQP_ROUTING_KEY", "orders")
          /\ o.properties.headers =
               Some(IF o.headers = None THEN EmptyDict ELSE o.headers[1])

\* Sent: the non-ASCII text without headers, then the order with headers,
\* under a configured exchange name.
C8_Witness ==
  /\ Len(trace) >= 2
  /\ "AMQP_EXCHANGE" \in DOMAIN environ
  /\ IsOkPublish(trace[1]) /\ IsOkPublish(trace[2])
  /\ LET a == Kind(trace[1], "basic_publish")[1]
         b == Kind(trace[2], "basic_publish")[1]
     IN  /\ a.msg = MsgText /\ a.headers = None
         /\ b.msg = MsgOrder /\ b.headers # None /\ b.headers[1] # EmptyDict

-----------------------------------------------------------------------------
(* C9 *)

\* C9: _connect() called while the Publisher holds an open connection opens
\* nothing, declares nothing, logs nothing and leaves the references as they
\* are; and a _connect() directly after a _connect() that returned does the
\* same, so two calls leave what one leaves.
C9_ConnectIdempotent ==
  [][Called("connect") =>
       LET r == trace'[Len(trace')]
       IN  /\ (conn # NoRef /\ is_open(Here, conn)) =>
                (r.ops = <<>> /\ r.err = None /\ Kept)
           /\ (trace # <<>> /\ Last.op = "connect" /\ Last.err = None) =>
                (r.ops = <<>> /\ r.err = None /\ Kept)]_vars

\* _connect() connected, and the _connect() after it did nothing.
C9_Witness ==
  /\ Len(trace) >= 2
  /\ trace[1].op = "connect" /\ trace[1].err = None /\ Len(trace[1].ops) = 4
  /\ trace[2].op = "connect" /\ trace[2].err = None /\ trace[2].ops = <<>>

-----------------------------------------------------------------------------
(* C10 *)

\* C10: every message sent goes out on a channel on which the configured
\* exchange was declared before, successfully, durable and with the
\* configured type.
C10_SentOnDeclaredExchange ==
  \A n \in DOMAIN AllOps :
    LET o == AllOps[n]
    IN  (o.k = "basic_publish" /\ o.ok) =>
          \E d \in 1..(n - 1) :
            LET e == AllOps[d]
            IN  /\ e.k = "exchange_declare" /\ e.ok
                /\ e.ch = o.ch
                /\ e.durable
                /\ e.exchange = cfg.EXCHANGE
                /\ e.exchange_type = cfg.TYPE

====
